---- MODULE Spec2Model ----
(***************************************************************************)
(* trips-redirect: a host name is mapped to a Polarsteps profile, the      *)
(* profile's trips are fetched, one trip is selected (ongoing > nearest    *)
(* future > most recent past) and the request is redirected to it, under   *)
(* a cache that a background goroutine empties once a day.                 *)
(*                                                                         *)
(* Two specifications share the module:                                    *)
(*   SpecSelect  selectTrip as a function of (trips, now)                  *)
(*   Spec        the handler goroutines, the cache and the resetter        *)
(***************************************************************************)
EXTENDS Integers, Sequences, FiniteSets, TLC

VARIABLES
    selTrips,   \* selectTrip: the argument trips
    selNow,     \* selectTrip: the value time.Now().Unix() returns
    selPc,      \* selectTrip: "call" before, "return" after
    selResult,  \* selectTrip: the returned *Trip (<<>> is nil, <<t>> is &t)
    cache,      \* cache.store: map[string]string, host -> redirect target
    rw,         \* cache.RWMutex: who holds the writer mutex, active readers
    handler,    \* per request goroutine: its position and its locals
    visit,      \* per request, the goroutine of main.go:138-152: "none" before it
                \* starts, "pending" while it runs, then "recorded" or "failed"
    resetter,   \* position of the goroutine of startCacheResetter
    lastPut,    \* history: per host, the target last put since the last reset ("" if none)
    clock,      \* the resetter's schedule: the instant time.Now() returns
    wakeAt,     \* the instant the resetter's current time.Sleep may return
    sleepFor,   \* the duration passed to the resetter's current time.Sleep
    nResets,    \* history: resets done so far
    fetResp,    \* fetchUserTrips: what http.Get and the body give
    fetPc,      \* fetchUserTrips: "call" before, "return" after
    fetResult,  \* fetchUserTrips: the returned ([]Trip, error)
    missedOld,  \* history: the handlers whose cache miss predates the last reset
    putOld      \* history: the hosts whose entry such a handler has written

selVars == <<selTrips, selNow, selPc, selResult>>

srvVars == <<cache, rw, handler, visit, resetter, lastPut>>

clkVars == <<clock, wakeAt, sleepFor, nResets>>

fetVars == <<fetResp, fetPc, fetResult>>

hisVars == <<missedOld, putOld>>

vars == <<selTrips, selNow, selPc, selResult,
          cache, rw, handler, visit, resetter, lastPut,
          clock, wakeAt, sleepFor, nResets,
          fetResp, fetPc, fetResult, missedOld, putOld>>

----------------------------------------------------------------------------
(* Bounds *)

\* longest trip list drawn from every combination of dates
MaxTrips == 3
\* instants are 0..MaxTime (epoch seconds, only their order matters)
MaxTime == 2

\* request goroutines running at the same time
NumHandlers == 2

\* the resetter's schedule is followed in units of 60 s over MaxDays days
\* of Day units each (24 h, shortened)
Day == 4

MaxDays == 4

Times == 0 .. MaxTime

Slots == 1 .. NumHandlers

----------------------------------------------------------------------------
(* Trip (main.go:31-36).  EndDate is a *int64: <<>> is nil, <<e>> is &e.   *)

Nil == << >>

SlugOf(id) == "trip" \o ToString(id)

Trip(id, start, end) ==
    [ID |-> id, Slug |-> SlugOf(id), StartDate |-> start, EndDate |-> end]

EndDates == {Nil} \cup {<<e>> : e \in Times}

----------------------------------------------------------------------------
(* sort.Slice as main.go:351 and main.go:356 call it.  The Go library      *)
(* sorts with pdqsort_func: a slice of at most maxInsertion elements by    *)
(* insertion sort; a longer one by choosing a pivot, partitioning around   *)
(* it and sorting both sides.  Indices are 0-based as in Go: At(s, i) is   *)
(* s[i].  The elements are records [k |-> sort key, v |-> value] and       *)
(* less(x, y) is x.k < y.k.                                                *)

maxInsertion == 12

At(s, i) == s[i + 1]

Swap(s, i, j) == [s EXCEPT ![i + 1] = s[j + 1], ![j + 1] = s[i + 1]]

less(x, y) == x.k < y.k

RECURSIVE insertionInner(_, _, _)
insertionInner(s, j, a) ==
    IF j > a /\ less(At(s, j), At(s, j - 1))
    THEN insertionInner(Swap(s, j, j - 1), j - 1, a)
    ELSE s

RECURSIVE insertionOuter(_, _, _, _)
insertionOuter(s, i, a, b) ==
    IF i < b
    THEN insertionOuter(insertionInner(s, i, a), i + 1, a, b)
    ELSE s

insertionSort(s, a, b) == insertionOuter(s, a + 1, a, b)

\* order2: the two indices ordered by their elements, and whether they swapped
order2(s, a, b) ==
    IF less(At(s, b), At(s, a))
    THEN [a |-> b, b |-> a, swaps |-> 1]
    ELSE [a |-> a, b |-> b, swaps |-> 0]

\* median of the elements at a, b, c and the number of index swaps made
median(s, a, b, c) ==
    LET o1 == order2(s, a, b)
        o2 == order2(s, o1.b, c)
        o3 == order2(s, o1.a, o2.a)
    IN  [pivot |-> o3.b, swaps |-> o1.swaps + o2.swaps + o3.swaps]

\* choosePivot for a slice shorter than shortestNinther (50): the median of
\* the elements at the three quarter points; hint "increasing" when no swap
\* was needed, "unknown" otherwise (maxSwaps = 12 needs the ninther)
choosePivot(s, a, b) ==
    LET l == b - a
        i == a + (l \div 4) * 1
        j == a + (l \div 4) * 2
        k == a + (l \div 4) * 3
        m == IF l >= 8 THEN median(s, i, j, k) ELSE [pivot |-> j, swaps |-> 0]
    IN  [pivot |-> m.pivot,
         hint  |-> IF m.swaps = 0 THEN "increasing" ELSE "unknown"]

\* partialInsertionSort on a slice shorter than shortestShifting (50) moves
\* nothing: it reports whether the slice is already sorted
partialInsertionSort(s, a, b) ==
    \A i \in (a + 1) .. (b - 1) : ~ less(At(s, i), At(s, i - 1))

RECURSIVE scanUp(_, _, _, _)
scanUp(s, i, j, a) ==
    IF i <= j /\ less(At(s, i), At(s, a)) THEN scanUp(s, i + 1, j, a) ELSE i

RECURSIVE scanDown(_, _, _, _)
scanDown(s, i, j, a) ==
    IF i <= j /\ ~ less(At(s, j), At(s, a)) THEN scanDown(s, i, j - 1, a) ELSE j

RECURSIVE partitionLoop(_, _, _, _)
partitionLoop(s, i0, j0, a) ==
    LET i == scanUp(s, i0, j0, a)
        j == scanDown(s, i, j0, a)
    IN  IF i > j
        THEN [data |-> Swap(s, j, a), mid |-> j]
        ELSE partitionLoop(Swap(s, i, j), i + 1, j - 1, a)

\* partition: the pivot goes to the front, smaller elements are swapped to
\* its left, then the pivot to its place mid
partition(s, a, b, pivot) == partitionLoop(Swap(s, a, pivot), a + 1, b - 1, a)

\* pdqsort_func on a whole slice of at most maxInsertion + 1 elements: after
\* one partition both sides have at most maxInsertion elements
pdqsort(s) ==
    LET n == Len(s)
    IN  CASE n <= maxInsertion -> insertionSort(s, 0, n)
          [] n = maxInsertion + 1 ->
                LET c == choosePivot(s, 0, n)
                IN  IF c.hint = "increasing" /\ partialInsertionSort(s, 0, n)
                    THEN s
                    ELSE LET p == partition(s, 0, n, c.pivot)
                         IN  insertionSort(
                                 insertionSort(p.data, 0, p.mid), p.mid + 1, n)

Values(ks) == [i \in 1 .. Len(ks) |-> ks[i].v]

\* sort.Slice(s, func(i, j) { return s[i].k < s[j].k }), the slice taken back
\* without its keys
SortSlice(ks) == Values(pdqsort(ks))

----------------------------------------------------------------------------
(* selectTrip (main.go:332-370)                                            *)

\* mutant: a trip that ends at this very second is already over
IsOngoingStrict(t, now) ==
    t.StartDate <= now /\ (t.EndDate = Nil \/ t.EndDate[1] > now)

IsOngoing(t, now) ==
    t.StartDate <= now /\ (t.EndDate = Nil \/ t.EndDate[1] >= now)

IsFuture(t, now) == t.StartDate > now

\* a past bucket that misses the trips ended at now - 1
IsPastLong(t, now) == t.EndDate # Nil /\ t.EndDate[1] + 1 < now

IsPast(t, now) == t.EndDate # Nil /\ t.EndDate[1] < now

\* mutant: the loop without its break, a later ongoing trip replaces the
\* earlier one
RECURSIVE scanTripsNoBreak(_, _, _, _)
scanTripsNoBreak(trips, i, now, acc) ==
    IF i > Len(trips) THEN acc
    ELSE LET t == trips[i]
         IN  scanTripsNoBreak(trips, i + 1, now,
                 [current |-> IF IsOngoing(t, now) THEN <<t>> ELSE acc.current,
                  future  |-> IF IsFuture(t, now)
                              THEN Append(acc.future, t) ELSE acc.future,
                  past    |-> IF IsPast(t, now)
                              THEN Append(acc.past, t) ELSE acc.past])

\* the loop of main.go:337-348 from index i on, with the values collected
\* so far
RECURSIVE scanTrips(_, _, _, _)
scanTrips(trips, i, now, acc) ==
    IF i > Len(trips) THEN acc
    ELSE LET t == trips[i]
         IN  IF IsOngoing(t, now)
             THEN [acc EXCEPT !.current = <<t>>]
             ELSE scanTrips(trips, i + 1, now,
                     [current |-> acc.current,
                      future  |-> IF IsFuture(t, now)
                                  THEN Append(acc.future, t) ELSE acc.future,
                      past    |-> IF IsPast(t, now)
                                  THEN Append(acc.past, t) ELSE acc.past])

\* mutant: the comparison of main.go:352 turned around
StartKeyDesc(t) == 0 - t.StartDate

StartKey(t) == t.StartDate

\* mutant: the comparison of main.go:357 turned around
EndKeyAsc(t) == t.EndDate[1]

\* less is *past[i].EndDate > *past[j].EndDate
EndKeyDesc(t) == 0 - t.EndDate[1]

\* future with the key of main.go:352
byStartDate(s) == [i \in 1 .. Len(s) |-> [k |-> StartKey(s[i]), v |-> s[i]]]

\* past with the key of main.go:357
byEndDateDesc(s) == [i \in 1 .. Len(s) |-> [k |-> EndKeyDesc(s[i]), v |-> s[i]]]

selectTrip(trips, now) ==
    LET b      == scanTrips(trips, 1, now,
                            [current |-> Nil, future |-> <<>>, past |-> <<>>])
        future == SortSlice(byStartDate(b.future))
        past   == SortSlice(byEndDateDesc(b.past))
    IN  IF b.current # Nil THEN b.current
        ELSE IF Len(future) > 0 THEN <<future[1]>>
        ELSE IF Len(past) > 0 THEN <<past[1]>>
        ELSE Nil

----------------------------------------------------------------------------
(* Inputs of selectTrip.  A trip's ID is its place in the list (IDs are    *)
(* unique within a profile), so two records with equal dates stay apart.   *)

RECURSIVE DateLists(_)
DateLists(n) ==
    IF n = 0 THEN {<<>>}
    ELSE LET shorter == DateLists(n - 1)
         IN  shorter \cup
             {Append(l, d) : l \in {x \in shorter : Len(x) = n - 1},
                             d \in Times \X EndDates}

Numbered(l) == [i \in 1 .. Len(l) |-> Trip(i, l[i][1], l[i][2])]

ShortInputs == {Numbered(l) : l \in DateLists(MaxTrips)}

\* lists one longer than maxInsertion: upcoming trips (no end date yet)
\* starting at one of two instants after now = 0
LongLen == maxInsertion + 1

LongInputs ==
    {Numbered([i \in 1 .. LongLen |-> <<st[i], Nil>>]) :
        st \in [1 .. LongLen -> {1, 2}]}

\* lists of MaxTrips records that lie further apart than Times allows: one
\* trip over before now = MaxTime - 1, upcoming trips starting at two
\* different instants after it
SpreadDates ==
    {<<0, <<0>>>>, <<MaxTime, Nil>>, <<MaxTime + 1, Nil>>,
     <<MaxTime + 1, <<MaxTime + 1>>>>}

SpreadInputs == {Numbered(l) : l \in [1 .. MaxTrips -> SpreadDates]}

----------------------------------------------------------------------------
(* Configuration and requests                                              *)

\* cfg.Domains (main.go:27-29, 61-68), as the README writes domains.yaml
Domains == [h \in {"a.io", "b.io"} |-> IF h = "a.io" THEN "alice" ELSE "bob"]

\* host names a request can carry
RawHosts == {"a.io", "www.a.io", "b.io", "A.io", "www.www.a.io", "www."}

\* a request: its Host and its X-Forwarded-Host header ("" when absent);
\* behind the proxy the Host is the proxy's own
Requests ==
    {[xfh |-> "", host |-> h] : h \in RawHosts}
    \cup {[xfh |-> h, host |-> "proxy.local"] : h \in {"www.a.io", "b.io"}}

\* main.go:109-112
requestHost(r) == IF r.xfh = "" THEN r.host ELSE r.xfh

UpperCase == "ABCDEFGHIJKLMNOPQRSTUVWXYZ"

LowerCase == "abcdefghijklmnopqrstuvwxyz"

LowerChar(c) ==
    IF \E k \in 1 .. Len(UpperCase) : SubSeq(UpperCase, k, k) = c
    THEN LET k == CHOOSE k \in 1 .. Len(UpperCase) : SubSeq(UpperCase, k, k) = c
         IN  SubSeq(LowerCase, k, k)
    ELSE c

\* strings.ToLower
RECURSIVE ToLower(_)
ToLower(s) ==
    IF Len(s) = 0 THEN ""
    ELSE LowerChar(SubSeq(s, 1, 1)) \o ToLower(SubSeq(s, 2, Len(s)))

\* mutant: every leading "www." is stripped, not one
RECURSIVE normalizeHostAll(_)
normalizeHostAll(host) ==
    IF Len(host) > 4 /\ SubSeq(host, 1, 4) = "www."
    THEN normalizeHostAll(SubSeq(host, 5, Len(host)))
    ELSE host

\* mutant: the host is folded to lower case on the way
normalizeHostFold(host) ==
    IF Len(host) > 4 /\ SubSeq(host, 1, 4) = "www."
    THEN ToLower(SubSeq(host, 5, Len(host)))
    ELSE ToLower(host)

\* main.go:114-116
normalizeHost(host) ==
    IF Len(host) > 4 /\ SubSeq(host, 1, 4) = "www."
    THEN SubSeq(host, 5, Len(host))
    ELSE host

\* main.go:169, 175, 182
profileURL(username) == "https://polarsteps.com/" \o username

\* mutant: the verbs of the format string in the wrong order
\* a trip URL without the profile
tripURLNoUser(username, t) ==
    "https://polarsteps.com/" \o ToString(t.ID) \o "-" \o t.Slug

tripURLSwapped(username, t) ==
    "https://polarsteps.com/" \o username \o "/" \o t.Slug
        \o "-" \o ToString(t.ID)

\* main.go:186
tripURL(username, t) ==
    "https://polarsteps.com/" \o username \o "/" \o ToString(t.ID)
        \o "-" \o t.Slug

----------------------------------------------------------------------------
(* The upstream API and fetchUserTrips (main.go:280-330)                   *)

\* the trips the upstream answers are made of
T1 == Trip(1, 0, <<1>>)

T2 == Trip(2, 2, Nil)

\* longest trip list of an upstream answer
MaxFetched == 1

RECURSIVE ListsOver(_, _)
ListsOver(S, n) ==
    IF n = 0 THEN {<<>>}
    ELSE LET shorter == ListsOver(S, n - 1)
         IN  shorter \cup
             {Append(l, x) : l \in {y \in shorter : Len(y) = n - 1}, x \in S}

\* a JSON element of a trip list: typed is FALSE when one of its fields has
\* a JSON type the Trip struct cannot take; complete is FALSE when id, slug
\* or start_date is absent; trip is what decoding leaves
Elem(t) == [typed |-> TRUE, complete |-> TRUE, trip |-> t]

BadElem == [typed |-> FALSE, complete |-> TRUE, trip |-> Trip(0, 0, Nil)]

\* the element {}: encoding/json leaves the zero value of every absent field
PartElem ==
    [typed |-> TRUE, complete |-> FALSE,
     trip |-> [ID |-> 0, Slug |-> "", StartDate |-> 0, EndDate |-> Nil]]

Elems(l) == [i \in 1 .. Len(l) |-> Elem(l[i])]

EmptyBody == [alltrips |-> <<>>, trips |-> <<>>, data |-> <<>>]

Bodies ==
    LET ls == {Elems(l) : l \in ListsOver({T1, T2}, MaxFetched)}
    IN  {[EmptyBody EXCEPT !.alltrips = l] : l \in ls}
        \cup {[EmptyBody EXCEPT !.trips = l] : l \in ls}
        \cup {[EmptyBody EXCEPT !.data = l] : l \in ls}
        \cup {[EmptyBody EXCEPT !.alltrips = <<Elem(T1), BadElem>>]}

\* what http.Get(url) and the body give: a transport error, or a status
\* with a body that is a JSON object or is not
Responses ==
    {[kind |-> "transport", status |-> 0, json |-> FALSE, body |-> EmptyBody]}
    \cup {[kind |-> "http", status |-> 500, json |-> TRUE, body |-> EmptyBody]}
    \cup {[kind |-> "http", status |-> 200, json |-> FALSE, body |-> EmptyBody]}
    \cup {[kind |-> "http", status |-> 200, json |-> TRUE, body |-> b] :
            b \in Bodies}

AllTyped(l) == \A i \in 1 .. Len(l) : l[i].typed

Decoded(l) == [i \in 1 .. Len(l) |-> l[i].trip]

NotFetched == [err |-> "not called", trips |-> <<>>]

Failed(e) == [err |-> e, trips |-> <<>>]

fetchUserTrips(resp) ==
    IF resp.kind = "transport" THEN Failed("HTTP request failed")
    ELSE IF resp.status # 200 THEN Failed("API returned status")
    ELSE IF ~ resp.json THEN Failed("failed to decode JSON")
    ELSE IF ~ (AllTyped(resp.body.alltrips) /\ AllTyped(resp.body.trips)
               /\ AllTyped(resp.body.data))
         THEN Failed("failed to unmarshal to ApiResponse")
    ELSE [err |-> "",
          trips |->
             IF Len(resp.body.alltrips) > 0 THEN Decoded(resp.body.alltrips)
             ELSE IF Len(resp.body.trips) > 0 THEN Decoded(resp.body.trips)
             ELSE IF Len(resp.body.data) > 0 THEN Decoded(resp.body.data)
             ELSE Decoded(resp.body.trips)]

----------------------------------------------------------------------------
(* The cache (main.go:21-24) and its RWMutex.  rw.w is the goroutine that  *)
(* holds the writer mutex (it has called Lock and not yet Unlock): from    *)
(* then on RLock blocks, and Lock returns once the active readers have     *)
(* left.  rw.readers counts the goroutines between RLock and RUnlock.      *)

NoOne == << >>

H(i) == <<"handler", i>>

R == <<"resetter">>

\* make(map[string]string)
EmptyMap == << >>

\* mutant: an entry that exists is kept
\* a store under the host with its www. prefix put back
CachePutWww(store, host, target) ==
    [h \in DOMAIN store \cup {"www." \o host} |->
        IF h = "www." \o host THEN target ELSE store[h]]

CachePutIfAbsent(store, host, target) ==
    [h \in DOMAIN store \cup {host} |->
        IF h \in DOMAIN store THEN store[h] ELSE target]

\* cache.store[host] = target
CachePut(store, host, target) ==
    [h \in DOMAIN store \cup {host} |->
        IF h = host THEN target ELSE store[h]]

\* mutant: a read that sees no entry
CacheGetNone(store, host) == [found |-> FALSE, url |-> ""]

\* cachedURL, found := cache.store[host]
CacheGet(store, host) ==
    IF host \in DOMAIN store
    THEN [found |-> TRUE, url |-> store[host]]
    ELSE [found |-> FALSE, url |-> ""]

NormHosts == {normalizeHost(h) : h \in RawHosts}

\* a goroutine slot with no request, and the locals of a handler as
\* declared: found, cachedURL, trips/err (fetched), selectedTrip, target
Idle ==
    [pc |-> "idle", rawHost |-> "", host |-> "", username |-> "",
     found |-> FALSE, cachedURL |-> "", fetched |-> NotFetched,
     selected |-> Nil, target |-> "", status |-> 0, location |-> ""]

SrvInit ==
    /\ cache = EmptyMap
    /\ rw = [w |-> NoOne, readers |-> 0]
    /\ handler = [i \in Slots |-> Idle]
    /\ visit = [i \in Slots |-> "none"]
    /\ resetter = "sleep"
    /\ lastPut = [h \in NormHosts |-> ""]

----------------------------------------------------------------------------
(* handler (main.go:108-194).  A slot that has answered keeps the locals   *)
(* the handler returned with, until the next request takes the slot.       *)

\* http.NotFound / http.Redirect and return
Respond(h, status, location) ==
    [h EXCEPT !.pc = "done", !.status = status, !.location = location]

\* mutant: the domain table is not consulted, every host is served
H_ReceiveNoCheck(i) ==
    /\ handler[i].pc \in {"idle", "done"}
    /\ visit[i] # "pending"
    /\ \E r \in Requests :
         LET raw  == requestHost(r)
             host == normalizeHost(raw)
             h    == [Idle EXCEPT !.rawHost = raw, !.host = host]
         IN  handler' = [handler EXCEPT ![i] =
                [h EXCEPT !.pc = "geo",
                          !.username = IF host \in DOMAIN Domains
                                       THEN Domains[host] ELSE host]]
    /\ visit' = [visit EXCEPT ![i] = "none"]
    /\ UNCHANGED <<cache, rw, resetter, lastPut>>

\* main.go:109-123: a request arrives on a free goroutine slot; an unknown
\* host is answered 404
H_Receive(i) ==
    /\ handler[i].pc \in {"idle", "done"}
    /\ visit[i] # "pending"
    /\ \E r \in Requests :
         LET raw  == requestHost(r)
             host == normalizeHost(raw)
             h    == [Idle EXCEPT !.rawHost = raw, !.host = host]
         IN  handler' = [handler EXCEPT ![i] =
                IF host \in DOMAIN Domains
                THEN [h EXCEPT !.pc = "geo", !.username = Domains[host]]
                ELSE Respond(h, 404, "")]
    /\ visit' = [visit EXCEPT ![i] = "none"]
    /\ UNCHANGED <<cache, rw, resetter, lastPut>>

\* main.go:125-152: getGeoLocation returns (a location or an error) and the
\* visit goroutine is started; the request's own host name is not read again
H_GeoLocation(i) ==
    /\ handler[i].pc = "geo"
    /\ visit' = [visit EXCEPT ![i] = "pending"]
    /\ handler' = [handler EXCEPT ![i].pc = "rlock", ![i].rawHost = ""]
    /\ UNCHANGED <<cache, rw, resetter, lastPut>>

\* mutant: a visit that could not be recorded turns the answer into an error
V_RecordOrFail(i) ==
    /\ visit[i] = "pending"
    /\ \E outcome \in {"recorded", "failed"} :
         /\ visit' = [visit EXCEPT ![i] = outcome]
         /\ handler' = IF outcome = "failed" /\ handler[i].pc # "done"
                       THEN [handler EXCEPT ![i] = Respond(handler[i], 500, "")]
                       ELSE handler
    /\ UNCHANGED <<cache, rw, resetter, lastPut>>

\* main.go:139-151: db.Exec returns, with nil ("recorded") or with an error
\* that is only logged ("failed"), and the visit goroutine ends
V_Record(i) ==
    /\ visit[i] = "pending"
    /\ \E outcome \in {"recorded", "failed"} :
         visit' = [visit EXCEPT ![i] = outcome]
    /\ UNCHANGED <<cache, rw, handler, resetter, lastPut>>

\* main.go:154
H_RLock(i) ==
    /\ handler[i].pc = "rlock"
    /\ rw.w = NoOne
    /\ rw' = [rw EXCEPT !.readers = @ + 1]
    /\ handler' = [handler EXCEPT ![i].pc = "read"]
    /\ UNCHANGED <<cache, visit, resetter, lastPut>>

\* main.go:155-156, 158, 164
\* a read that returns without RUnlock
H_ReadHolding(i) ==
    /\ handler[i].pc = "read"
    /\ LET g == CacheGet(cache, handler[i].host)
       IN  handler' = [handler EXCEPT
                          ![i].pc = IF g.found THEN "hit" ELSE "fetch",
                          ![i].found = g.found, ![i].cachedURL = g.url]
    /\ UNCHANGED <<cache, rw, visit, resetter, lastPut>>

H_Read(i) ==
    /\ handler[i].pc = "read"
    /\ LET g == CacheGet(cache, handler[i].host)
       IN  handler' = [handler EXCEPT
                          ![i].pc = IF g.found THEN "hit" ELSE "fetch",
                          ![i].found = g.found, ![i].cachedURL = g.url]
    /\ rw' = [rw EXCEPT !.readers = @ - 1]
    /\ UNCHANGED <<cache, visit, resetter, lastPut>>

\* mutant: a hit is not returned, the trips are fetched all the same
H_HitRefetch(i) ==
    /\ handler[i].pc = "hit"
    /\ handler' = [handler EXCEPT ![i].pc = "fetch"]
    /\ UNCHANGED <<cache, rw, visit, resetter, lastPut>>

\* main.go:159-161
H_Hit(i) ==
    /\ handler[i].pc = "hit"
    /\ handler' = [handler EXCEPT ![i] =
                      Respond(handler[i], 302, handler[i].cachedURL)]
    /\ UNCHANGED <<cache, rw, visit, resetter, lastPut>>

\* main.go:166: fetchUserTrips returns
H_Fetch(i) ==
    /\ handler[i].pc = "fetch"
    /\ \E resp \in Responses :
         handler' = [handler EXCEPT ![i].pc = "select",
                        ![i].fetched = fetchUserTrips(resp)]
    /\ UNCHANGED <<cache, rw, visit, resetter, lastPut>>

\* mutant: an empty trip list is answered as an unknown host is
afterFetchNotFound(h, now) ==
    LET fallback == Respond(h, 302, profileURL(h.username))
        sel      == selectTrip(h.fetched.trips, now)
    IN  IF h.fetched.err # "" THEN fallback
        ELSE IF Len(h.fetched.trips) = 0 THEN Respond(h, 404, "")
        ELSE IF sel = Nil THEN fallback
        ELSE [h EXCEPT !.pc = "lock", !.selected = sel,
                 !.target = tripURL(h.username, sel[1])]

\* mutant: the profile page found for an empty trip list is cached too
afterFetchCacheFallback(h, now) ==
    LET fallback == Respond(h, 302, profileURL(h.username))
        sel      == selectTrip(h.fetched.trips, now)
    IN  IF h.fetched.err # "" THEN fallback
        ELSE IF Len(h.fetched.trips) = 0
             THEN [h EXCEPT !.pc = "lock", !.target = profileURL(h.username)]
        ELSE IF sel = Nil THEN fallback
        ELSE [h EXCEPT !.pc = "lock", !.selected = sel,
                 !.target = tripURL(h.username, sel[1])]

\* main.go:167-186 when time.Now().Unix() returns now inside selectTrip:
\* the fallback redirect, or the target to cache
afterFetch(h, now) ==
    LET fallback == Respond(h, 302, profileURL(h.username))
        sel      == selectTrip(h.fetched.trips, now)
    IN  IF h.fetched.err # "" THEN fallback
        ELSE IF Len(h.fetched.trips) = 0 THEN fallback
        ELSE IF sel = Nil THEN fallback
        ELSE [h EXCEPT !.pc = "lock", !.selected = sel,
                 !.target = tripURL(h.username, sel[1])]

H_Select(i) ==
    /\ handler[i].pc = "select"
    /\ \E now \in Times :
         handler' = [handler EXCEPT ![i] = afterFetch(handler[i], now)]
    /\ UNCHANGED <<cache, rw, visit, resetter, lastPut>>

\* mutant: a request that finds the host cached by now does not write
H_LockIfAbsent(i) ==
    /\ handler[i].pc = "lock"
    /\ rw.w = NoOne
    /\ IF handler[i].host \in DOMAIN cache
       THEN /\ handler' = [handler EXCEPT ![i].pc = "redirect"]
            /\ rw' = rw
       ELSE /\ handler' = [handler EXCEPT ![i].pc = "lockwait"]
            /\ rw' = [rw EXCEPT !.w = H(i)]
    /\ UNCHANGED <<cache, visit, resetter, lastPut>>

\* main.go:188, Lock takes the writer mutex
H_Lock(i) ==
    /\ handler[i].pc = "lock"
    /\ rw.w = NoOne
    /\ rw' = [rw EXCEPT !.w = H(i)]
    /\ handler' = [handler EXCEPT ![i].pc = "lockwait"]
    /\ UNCHANGED <<cache, visit, resetter, lastPut>>

\* mutant: Lock returns while readers are inside
H_LockedNoWait(i) ==
    /\ handler[i].pc = "lockwait"
    /\ handler' = [handler EXCEPT ![i].pc = "write"]
    /\ UNCHANGED <<cache, rw, visit, resetter, lastPut>>

\* main.go:188, Lock returns when no reader is left
H_Locked(i) ==
    /\ handler[i].pc = "lockwait"
    /\ rw.readers = 0
    /\ handler' = [handler EXCEPT ![i].pc = "write"]
    /\ UNCHANGED <<cache, rw, visit, resetter, lastPut>>

\* main.go:189-190
H_Write(i) ==
    /\ handler[i].pc = "write"
    /\ cache' = CachePut(cache, handler[i].host, handler[i].target)
    /\ lastPut' = [lastPut EXCEPT ![handler[i].host] = handler[i].target]
    /\ rw' = [rw EXCEPT !.w = NoOne]
    /\ handler' = [handler EXCEPT ![i].pc = "redirect"]
    /\ UNCHANGED <<visit, resetter>>

\* main.go:192-193
H_Redirect(i) ==
    /\ handler[i].pc = "redirect"
    /\ handler' = [handler EXCEPT ![i] =
                      Respond(handler[i], 302, handler[i].target)]
    /\ UNCHANGED <<cache, rw, visit, resetter, lastPut>>

----------------
(* startCacheResetter (main.go:381-398)                                    *)

\* main.go:385-389: the sleep until midnight ends
R_Wake ==
    /\ resetter = "sleep"
    /\ resetter' = "lock"
    /\ UNCHANGED <<cache, rw, handler, visit, lastPut>>

\* main.go:391, Lock takes the writer mutex
R_Lock ==
    /\ resetter = "lock"
    /\ rw.w = NoOne
    /\ rw' = [rw EXCEPT !.w = R]
    /\ resetter' = "lockwait"
    /\ UNCHANGED <<cache, handler, visit, lastPut>>

\* main.go:391, Lock returns when no reader is left
R_Locked ==
    /\ resetter = "lockwait"
    /\ rw.readers = 0
    /\ resetter' = "reset"
    /\ UNCHANGED <<cache, rw, handler, visit, lastPut>>

\* mutant: the resetter empties the map and keeps the lock
R_ResetNoUnlock ==
    /\ resetter = "reset"
    /\ cache' = EmptyMap
    /\ lastPut' = [h \in NormHosts |-> ""]
    /\ resetter' = "pause"
    /\ UNCHANGED <<rw, handler, visit>>

\* mutant: the resetter deletes one key at a time
R_ResetOne ==
    /\ resetter = "reset"
    /\ cache' = IF DOMAIN cache = {} THEN cache
                ELSE LET gone == CHOOSE h \in DOMAIN cache : TRUE
                     IN  [h \in DOMAIN cache \ {gone} |-> cache[h]]
    /\ lastPut' = [h \in NormHosts |->
                      IF h \in DOMAIN cache' THEN lastPut[h] ELSE ""]
    /\ rw' = [rw EXCEPT !.w = NoOne]
    /\ resetter' = "pause"
    /\ UNCHANGED <<handler, visit>>

\* main.go:392-393
R_Reset ==
    /\ resetter = "reset"
    /\ cache' = EmptyMap
    /\ lastPut' = [h \in NormHosts |-> ""]
    /\ rw' = [rw EXCEPT !.w = NoOne]
    /\ resetter' = "pause"
    /\ UNCHANGED <<handler, visit>>

\* main.go:395: the 60 s sleep ends and the loop starts over
R_Pause ==
    /\ resetter = "pause"
    /\ resetter' = "sleep"
    /\ UNCHANGED <<cache, rw, handler, visit, lastPut>>

----------------------------------------------------------------------------
(* Specifications                                                          *)

\* the schedule is not followed
ClkUnused == clock = 0 /\ wakeAt = 0 /\ sleepFor = 0 /\ nResets = 0

\* fetchUserTrips is not followed on its own
FetUnused ==
    /\ fetResp = [kind |-> "transport", status |-> 0, json |-> FALSE,
                  body |-> EmptyBody]
    /\ fetPc = "unused"
    /\ fetResult = NotFetched

\* no reset has happened
HisInit == missedOld = {} /\ putOld = {}

Init ==
    /\ SrvInit
    /\ selTrips = <<>> /\ selNow = 0 /\ selPc = "unused" /\ selResult = Nil
    /\ ClkUnused
    /\ FetUnused
    /\ HisInit

Next ==
    \/ \E i \in Slots :
         \/ H_Receive(i)
         \/ H_GeoLocation(i)
         \/ V_Record(i)
         \/ H_RLock(i)
         \/ H_Read(i)
         \/ H_Hit(i)
         \/ H_Fetch(i)
         \/ H_Select(i)
         \/ H_Lock(i)
         \/ H_Locked(i)
         \/ H_Write(i)
         \/ H_Redirect(i)
    \/ R_Wake
    \/ R_Lock
    \/ R_Locked
    \/ R_Reset
    \/ R_Pause

Spec == Init /\ [][Next /\ UNCHANGED <<selVars, clkVars, fetVars, hisVars>>]_vars

\* the steps of handler i that wait for no other goroutine: its calls
\* return (getGeoLocation and fetchUserTrips return or fail, the map
\* operations and http.Redirect end); Lock returns once the readers it
\* waits for, which are held back no longer, have left
Runs(i) ==
    \/ H_GeoLocation(i)
    \/ H_Read(i)
    \/ H_Hit(i)
    \/ H_Fetch(i)
    \/ H_Select(i)
    \/ H_Locked(i)
    \/ H_Write(i)
    \/ H_Redirect(i)

\* the two lock acquisitions of handler i.  A goroutine blocked in RLock is
\* admitted when the writer unlocks, and sync.Mutex hands the writer mutex
\* to a Lock that has waited
Acquires(i) == H_RLock(i) \/ H_Lock(i)

\* The runs checked for progress: requests for a.io under its spellings and
\* for one host that is not configured, an upstream that fails with a
\* status, or answers no trip or one trip.  Progress depends on the locks,
\* which these runs exercise as all runs do.
LiveScope ==
    \A i \in Slots :
        /\ handler[i].host \in {"", "a.io", "A.io"}
        /\ handler[i].fetched \in
              {NotFetched, Failed("API returned status"),
               [err |-> "", trips |-> <<>>],
               [err |-> "", trips |-> <<T1>>],
               [err |-> "", trips |-> <<T2>>]}

LiveNext == Next /\ LiveScope' /\ UNCHANGED <<selVars, clkVars, fetVars, hisVars>>

\* Spec with the scheduling the code relies on: weak fairness for the steps
\* that wait for nobody and for the resetter's critical section, strong
\* fairness for the acquisitions.  New requests and the resetter's wake-up
\* are under no obligation.
Fairness ==
    /\ \A i \in Slots :
          /\ WF_vars(Runs(i) /\ LiveScope' /\ UNCHANGED <<selVars, clkVars, fetVars, hisVars>>)
          /\ SF_vars(Acquires(i) /\ LiveScope' /\ UNCHANGED <<selVars, clkVars, fetVars, hisVars>>)
    /\ WF_vars((R_Locked \/ R_Reset) /\ UNCHANGED <<selVars, clkVars, fetVars, hisVars>>)

FairSpec == Init /\ [][LiveNext]_vars /\ Fairness

SelInit ==
    /\ \/ selTrips \in ShortInputs /\ selNow \in Times
       \/ selTrips \in LongInputs /\ selNow = 0
       \/ selTrips \in SpreadInputs /\ selNow = MaxTime - 1
    /\ selPc = "call"
    /\ selResult = Nil
    /\ SrvInit
    /\ ClkUnused
    /\ FetUnused
    /\ HisInit

SelectTrip ==
    /\ selPc = "call"
    /\ selResult' = selectTrip(selTrips, selNow)
    /\ selPc' = "return"
    /\ UNCHANGED <<selTrips, selNow>>
    /\ UNCHANGED <<srvVars, clkVars, fetVars, hisVars>>

SelNext == SelectTrip

SpecSelect == SelInit /\ [][SelNext]_vars

----------------
(* The resetter alone with its clock (main.go:384-396).  Time passes at    *)
(* any point: time.Sleep returns no earlier than asked, possibly later,    *)
(* and the lock may have to be waited for; the resetter is at most MaxLate *)
(* behind the instant its sleep was to end.                                *)

\* 60 * time.Second
Pause == 1

\* the most a sleep and the lock acquisition after it overrun together
MaxLate == 1

Horizon == MaxDays * Day

\* mutant: the next sleep ends a day from now
sameTimeTomorrow(now) == now + Day

\* time.Date(now.Year(), now.Month(), now.Day(), 0, 0, 0, 0,
\* now.Location()).Add(24 * time.Hour) on days of 24 hours
nextMidnight(now) == (now \div Day) * Day + Day

\* the process starts at some time of the first day and the resetter
\* goes to sleep until nextMidnight
ResetInit ==
    /\ SrvInit
    /\ selTrips = <<>> /\ selNow = 0 /\ selPc = "unused" /\ selResult = Nil
    /\ clock \in 0 .. (Day - 1)
    /\ wakeAt = nextMidnight(clock)
    /\ sleepFor = wakeAt - clock
    /\ nResets = 0
    /\ FetUnused
    /\ HisInit

Tick ==
    /\ clock < Horizon
    /\ clock < wakeAt + MaxLate
    /\ clock' = clock + 1
    /\ UNCHANGED <<wakeAt, sleepFor, nResets>>
    /\ UNCHANGED srvVars

\* main.go:389: time.Sleep(durationUntilMidnight) returns
T_Wake ==
    /\ clock >= wakeAt
    /\ R_Wake
    /\ UNCHANGED clkVars

T_Lock == R_Lock /\ UNCHANGED clkVars

T_Locked == R_Locked /\ UNCHANGED clkVars

\* main.go:392-395: the reset, then time.Sleep(60 * time.Second) is called
T_Reset ==
    /\ R_Reset
    /\ nResets' = nResets + 1
    /\ sleepFor' = Pause
    /\ wakeAt' = clock + Pause
    /\ clock' = clock

\* main.go:395, 385-389: the pause ends, the loop starts over and computes
\* its next sleep
T_Pause ==
    /\ clock >= wakeAt
    /\ R_Pause
    /\ wakeAt' = nextMidnight(clock)
    /\ sleepFor' = nextMidnight(clock) - clock
    /\ UNCHANGED <<clock, nResets>>

ResetNext ==
    /\ \/ Tick
       \/ T_Wake
       \/ T_Lock
       \/ T_Locked
       \/ T_Reset
       \/ T_Pause
    /\ UNCHANGED <<selVars, fetVars, hisVars>>

SpecReset == ResetInit /\ [][ResetNext]_vars

----------------------------------------------------------------------------
(* Properties of selectTrip, checked under SpecSelect.  The buckets are    *)
(* written out here as the claims word them.                               *)

Returned == selPc = "return"

Idx == 1 .. Len(selTrips)

OngoingIdx ==
    {i \in Idx : /\ selTrips[i].StartDate <= selNow
                 /\ \/ selTrips[i].EndDate = <<>>
                    \/ selTrips[i].EndDate[1] >= selNow}

FutureIdx == {i \in Idx : selTrips[i].StartDate > selNow}

PastIdx ==
    {i \in Idx : selTrips[i].EndDate # <<>> /\ selTrips[i].EndDate[1] < selNow}

First(S) == CHOOSE i \in S : \A j \in S : i <= j

\* C1: when some record is ongoing, selectTrip returns the first ongoing
\* record in input order, whatever else the input holds
C1_FirstOngoing ==
    (Returned /\ OngoingIdx # {})
        => selResult = <<selTrips[First(OngoingIdx)]>>

\* a future record, then the ongoing one, then a second ongoing and a past one
C1_Witness ==
    /\ Returned
    /\ Len(selTrips) >= 3
    /\ 1 \in FutureIdx
    /\ First(OngoingIdx) = 2
    /\ 3 \in OngoingIdx \/ 3 \in PastIdx
    /\ selResult = <<selTrips[2]>>

\* records with start <= now < end, as the testable property words "ongoing"
StrictIdx ==
    {i \in Idx : /\ selTrips[i].StartDate <= selNow
                 /\ selTrips[i].EndDate # <<>>
                 /\ selNow < selTrips[i].EndDate[1]}

\* C2 as stated: with exactly one record whose start <= now < end,
\* selectTrip returns that record
C2_Original ==
    (Returned /\ Cardinality(StrictIdx) = 1)
        => selResult = <<selTrips[First(StrictIdx)]>>

\* C2: with exactly one record whose start <= now and whose end is absent
\* or >= now, selectTrip returns that record, wherever it stands
C2_OnlyOngoing ==
    (Returned /\ Cardinality(OngoingIdx) = 1)
        => selResult = <<selTrips[First(OngoingIdx)]>>

\* the only ongoing record ends at now and stands last, after a future and
\* a past record
C2_Witness ==
    /\ Returned
    /\ Len(selTrips) = 3
    /\ OngoingIdx = {3}
    /\ selTrips[3].EndDate = <<selNow>>
    /\ FutureIdx # {} /\ PastIdx # {}
    /\ selResult = <<selTrips[3]>>

\* C3: with no ongoing record and some future record, the returned record
\* is a future record of the input whose start is the least of all future
\* records
C3_NearestFuture ==
    (Returned /\ OngoingIdx = {} /\ FutureIdx # {})
        => /\ selResult # <<>>
           /\ \E i \in FutureIdx : selResult[1] = selTrips[i]
           /\ selResult[1].StartDate > selNow
           /\ \A i \in FutureIdx :
                selResult[1].StartDate <= selTrips[i].StartDate

\* the later future trip stands first, a past record is there too
C3_Witness ==
    /\ Returned
    /\ OngoingIdx = {}
    /\ Len(selTrips) = 3
    /\ {1, 2} \subseteq FutureIdx
    /\ selTrips[1].StartDate > selTrips[2].StartDate
    /\ 3 \in PastIdx
    /\ selResult = <<selTrips[2]>>

MinStartIdx ==
    {i \in FutureIdx :
        \A j \in FutureIdx : selTrips[i].StartDate <= selTrips[j].StartDate}

MaxEndIdx ==
    {i \in PastIdx :
        \A j \in PastIdx : selTrips[i].EndDate[1] >= selTrips[j].EndDate[1]}

\* C4: among several future records with the least start the first in
\* input order is returned, and among several past records with the
\* greatest end the first in input order
C4_TieBreak ==
    /\ (Returned /\ OngoingIdx = {} /\ FutureIdx # {})
          => selResult = <<selTrips[First(MinStartIdx)]>>
    /\ (Returned /\ OngoingIdx = {} /\ FutureIdx = {} /\ PastIdx # {})
          => selResult = <<selTrips[First(MaxEndIdx)]>>

\* C5: with no ongoing and no future record and some past record, the
\* returned record is a past record whose end is the greatest
C5_MostRecentPast ==
    (Returned /\ OngoingIdx = {} /\ FutureIdx = {} /\ PastIdx # {})
        => /\ selResult # <<>>
           /\ \E i \in PastIdx : selResult[1] = selTrips[i]
           /\ \A i \in PastIdx :
                selResult[1].EndDate[1] >= selTrips[i].EndDate[1]

\* three past records, the most recent one in the middle
C5_Witness ==
    /\ Returned
    /\ OngoingIdx = {} /\ FutureIdx = {}
    /\ PastIdx = {1, 2, 3}
    /\ selTrips[2].EndDate[1] > selTrips[1].EndDate[1]
    /\ selTrips[2].EndDate[1] > selTrips[3].EndDate[1]
    /\ selResult = <<selTrips[2]>>

----------------------------------------------------------------------------
(* Properties of the handler and the cache, checked under Spec.            *)

\* C6: selectTrip returns nil for the empty list, and a request whose
\* upstream trip list is empty is redirected to the profile page
C6_EmptyList ==
    /\ \A now \in Times : selectTrip(<<>>, now) = <<>>
    /\ \A i \in Slots :
         (/\ handler[i].pc = "done"
          /\ handler[i].fetched = [err |-> "", trips |-> <<>>])
            => /\ handler[i].status = 302
               /\ handler[i].location =
                     "https://polarsteps.com/" \o handler[i].username
               /\ handler[i].selected = <<>>

C6_Witness ==
    \E i \in Slots :
        /\ handler[i].pc = "done"
        /\ handler[i].fetched = [err |-> "", trips |-> <<>>]
        /\ handler[i].location = "https://polarsteps.com/alice"

\* the step in which handler i reads the cache (main.go:155)
ReadStep(i) == handler[i].pc = "read" /\ handler'[i].pc # "read"

\* C7: a get of host h returns the target of the last put of h when no
\* reset came after that put, and absent when no put of h came after the
\* last reset
C7_RoundTrip ==
    [][\A i \in Slots :
          ReadStep(i) =>
             /\ handler'[i].found = (lastPut[handler[i].host] # "")
             /\ handler'[i].cachedURL = lastPut[handler[i].host]]_vars

\* a get that found the target another request had put for the same host
C7_Witness ==
    \E i, j \in Slots :
        /\ i # j
        /\ handler[i].pc = "hit"
        /\ handler[i].cachedURL = handler[j].target
        /\ handler[j].pc \in {"redirect", "done"}
        /\ handler[j].host = handler[i].host
        /\ ~ handler[j].found

\* one leading "www." taken off, as the claims describe the normal form
Stripped(raw) ==
    IF Len(raw) > 4 /\ SubSeq(raw, 1, 4) = "www."
    THEN SubSeq(raw, 5, Len(raw))
    ELSE raw

\* C8: a request for "www." + h and a request for h, h configured, are
\* looked up and cached under the same key h; of two leading "www." one
\* is left
C8_WwwSameKey ==
    \A i \in Slots :
        \A h \in DOMAIN Domains :
            /\ handler[i].rawHost \in {h, "www." \o h}
                  => /\ handler[i].host = h
                     /\ handler[i].username = Domains[h]
            /\ handler[i].rawHost = "www.www." \o h
                  => handler[i].host = "www." \o h

\* both spellings are being served at once, under one key
C8_Witness ==
    \E i, j \in Slots :
        /\ handler[i].rawHost = "www.a.io" /\ handler[i].pc = "geo"
        /\ handler[j].rawHost = "a.io" /\ handler[j].pc = "geo"
        /\ handler[i].host = handler[j].host

\* C9 as stated: every cache key is lower-case without a leading "www.",
\* and requests whose hosts differ only in letter case use the same key
C9_Original ==
    /\ \A h \in DOMAIN cache :
          h = ToLower(h) /\ ~ (Len(h) > 4 /\ SubSeq(h, 1, 4) = "www.")
    /\ \A i, j \in Slots :
          (/\ handler[i].rawHost # "" /\ handler[j].rawHost # ""
           /\ ToLower(handler[i].rawHost) = ToLower(handler[j].rawHost))
             => handler[i].host = handler[j].host

\* C9: every cache key is a key of the domain table; the key of a request
\* is its host with one leading "www." taken off and the letter case left
\* as it came; a request whose key is not in the table is answered 404 and
\* has not read the cache
C9_KeysAsConfigured ==
    /\ DOMAIN cache \subseteq DOMAIN Domains
    /\ \A i \in Slots :
          /\ handler[i].rawHost # ""
                => handler[i].host = Stripped(handler[i].rawHost)
          /\ (handler[i].pc # "idle" /\ handler[i].host \notin DOMAIN Domains)
                => /\ handler[i].pc = "done"
                   /\ handler[i].status = 404
                   /\ ~ handler[i].found
                   /\ handler[i].target = ""

\* a request for A.io is answered 404 while a.io is cached
C9_Witness ==
    \E i \in Slots :
        /\ handler[i].rawHost = "A.io"
        /\ handler[i].host = "A.io"
        /\ handler[i].status = 404
        /\ "a.io" \in DOMAIN cache

\* the trip page of profile p and record r
TripPage(p, r) ==
    "https://polarsteps.com/" \o p \o "/" \o ToString(r.ID) \o "-" \o r.Slug

\* C10: a request that missed the cache and for which selectTrip returned
\* r is answered 302 with the trip page of r, and before that answer the
\* same string was stored in the cache under the normalized host
C10_TripRedirect ==
    [][\A i \in Slots :
          LET h    == handler[i]
              page == TripPage(Domains[h.host], h.selected[1])
          IN  /\ (h.pc = "write" /\ handler'[i].pc # "write")
                    => /\ handler'[i].pc = "redirect"
                       /\ h.host \in DOMAIN cache'
                       /\ cache'[h.host] = page
              /\ (h.pc # "redirect" /\ handler'[i].pc = "redirect")
                    => h.pc = "write"
              /\ (h.selected # <<>> /\ h.pc # "done" /\ handler'[i].pc = "done")
                    => /\ h.pc = "redirect"
                       /\ handler'[i].status = 302
                       /\ handler'[i].location = page
              /\ (h.pc = "select" /\ handler'[i].selected # <<>>)
                    => /\ handler'[i].pc = "lock"
                       /\ ~ h.found
                       /\ h.fetched.err = ""]_vars

\* a miss for a.io, trip 1 selected, answered with its trip page
C10_Witness ==
    \E i \in Slots :
        /\ handler[i].pc = "done"
        /\ ~ handler[i].found
        /\ handler[i].selected = <<T1>>
        /\ handler[i].host = "a.io"
        /\ handler[i].location = "https://polarsteps.com/alice/1-trip1"

----------------------------------------------------------------------------
(* Failure, hit and configuration-miss paths of the handler, under Spec.   *)

\* the profile pages of the configured domains
FallbackURLs == {"https://polarsteps.com/" \o Domains[h] : h \in DOMAIN Domains}

\* the step in which handler i leaves main.go:166-184 with what it fetched
LeavesSelect(i) == handler[i].pc = "select" /\ handler'[i].pc # "select"

\* the fetch of handler i failed or gave no trip
FetchFailed(i) ==
    handler[i].fetched.err # "" \/ Len(handler[i].fetched.trips) = 0

\* C11: a resolution that ends in a fetch error, an empty trip list or no
\* suitable trip is answered 302 with the profile page and writes nothing
\* to the cache; only a request with a selected trip goes on to the write,
\* and no cache value is ever a profile page
C11_FailureNoWrite ==
    /\ [](\A h \in DOMAIN cache : cache[h] \notin FallbackURLs)
    /\ [](\A i \in Slots :
            handler[i].pc \in {"lock", "lockwait", "write", "redirect"}
               => /\ handler[i].fetched.err = ""
                  /\ Len(handler[i].fetched.trips) > 0
                  /\ handler[i].selected # <<>>)
    /\ [][\A i \in Slots :
            (LeavesSelect(i) /\ (FetchFailed(i) \/ handler'[i].selected = <<>>))
               => /\ handler'[i].pc = "done"
                  /\ handler'[i].status = 302
                  /\ handler'[i].location =
                        "https://polarsteps.com/" \o handler[i].username
                  /\ handler'[i].target = ""
                  /\ cache' = cache]_vars

\* the upstream answered 500 for alice: profile page, a.io not cached
C11_Witness ==
    \E i \in Slots :
        /\ handler[i].pc = "done"
        /\ handler[i].fetched.err = "API returned status"
        /\ handler[i].host = "a.io"
        /\ handler[i].status = 302
        /\ handler[i].location = "https://polarsteps.com/alice"
        /\ "a.io" \notin DOMAIN cache

\* C12: a request whose cache read found an entry is answered 302 with
\* exactly that value, and has fetched nothing, selected nothing and
\* written nothing
C12_HitShortCircuit ==
    /\ [](\A i \in Slots :
            (handler[i].found /\ handler[i].pc # "idle")
               => /\ handler[i].pc \in {"hit", "done"}
                  /\ handler[i].fetched = [err |-> "not called", trips |-> <<>>]
                  /\ handler[i].selected = <<>>
                  /\ handler[i].target = ""
                  /\ handler[i].pc = "done"
                        => /\ handler[i].status = 302
                           /\ handler[i].location = handler[i].cachedURL)
    /\ [][\A i \in Slots :
            /\ (ReadStep(i) /\ handler[i].host \in DOMAIN cache)
                  => /\ handler'[i].found
                     /\ handler'[i].cachedURL = cache[handler[i].host]
            /\ (handler[i].found /\ handler'[i] # handler[i]
                 /\ handler[i].pc # "done")
                  => /\ handler'[i].pc = "done"
                     /\ cache' = cache]_vars

\* a hit for b.io answered with the cached trip page of bob
C12_Witness ==
    \E i \in Slots :
        /\ handler[i].pc = "done"
        /\ handler[i].found
        /\ handler[i].host = "b.io"
        /\ handler[i].location = "https://polarsteps.com/bob/2-trip2"

\* C13: a request whose normalized host is not in the domain table is
\* answered 404 in the step that receives it: no cache read or write, no
\* lock taken, no fetch and no visit record
C13_ConfigurationMiss ==
    /\ [](\A i \in Slots :
            (handler[i].pc # "idle" /\ handler[i].host \notin DOMAIN Domains)
               => /\ handler[i].pc = "done"
                  /\ handler[i].status = 404
                  /\ handler[i].location = ""
                  /\ ~ handler[i].found
                  /\ handler[i].fetched = [err |-> "not called", trips |-> <<>>]
                  /\ handler[i].selected = <<>>
                  /\ handler[i].target = ""
                  /\ visit[i] = "none")
    /\ [][\A i \in Slots :
            (handler'[i] # handler[i]
             /\ handler'[i].host \notin DOMAIN Domains)
               => /\ handler[i].pc \in {"idle", "done"}
                  /\ cache' = cache
                  /\ rw' = rw
                  /\ visit'[i] = "none"]_vars

\* www.www.a.io is looked up as www.a.io, which is not configured, while
\* the other request is being served
C13_Witness ==
    \E i, j \in Slots :
        /\ handler[i].rawHost = "www.www.a.io"
        /\ handler[i].host = "www.a.io"
        /\ handler[i].pc = "done"
        /\ handler[i].status = 404
        /\ handler[j].pc = "fetch"

----------------------------------------------------------------------------
(* Availability, under FairSpec.                                           *)

\* the trip pages the upstream's trips give for the configured profiles
TripURLs ==
    {"https://polarsteps.com/" \o Domains[h] \o "/" \o ToString(t.ID)
        \o "-" \o t.Slug : h \in DOMAIN Domains, t \in {T1, T2}}

\* handler i has answered 302 with a trip page or the profile page
Redirected(i) ==
    /\ handler[i].pc = "done"
    /\ handler[i].status = 302
    /\ handler[i].location \in TripURLs \cup FallbackURLs

\* C14: every request for a configured host is eventually answered 302
\* with a trip page or the profile page, whatever the other requests and
\* the resetter do, and is never answered with anything else
C14_Availability ==
    /\ \A i \in Slots : (handler[i].pc = "geo") ~> Redirected(i)
    /\ [](\A i \in Slots :
            (handler[i].pc = "done" /\ handler[i].host \in DOMAIN Domains)
               => Redirected(i))

\* a request answered after it had to wait for the resetter: it missed,
\* fetched, and the cache it wrote to has been emptied since
C14_Witness ==
    \E i \in Slots :
        /\ Redirected(i)
        /\ handler[i].target # ""
        /\ handler[i].location = handler[i].target
        /\ handler[i].host \notin DOMAIN cache
        /\ resetter = "pause"

----------------------------------------------------------------------------
(* The lock and concurrent requests, under Spec.                           *)

\* goroutines between Lock and Unlock
WritersIn ==
    {H(i) : i \in {k \in Slots : handler[k].pc = "write"}}
    \cup (IF resetter = "reset" THEN {R} ELSE {})

\* handlers between RLock and RUnlock
ReadersIn == {i \in Slots : handler[i].pc = "read"}

\* C15: at most one writer is inside a critical section and then it holds
\* the lock and no reader is inside; the lock counts the readers inside;
\* the map changes only in a step of the writer inside and is read only in
\* a step of a reader inside
C15_LockDiscipline ==
    /\ [](/\ Cardinality(WritersIn) <= 1
          /\ WritersIn # {} => (WritersIn = {rw.w} /\ ReadersIn = {})
          /\ rw.readers = Cardinality(ReadersIn))
    /\ [][/\ cache' # cache =>
              /\ WritersIn # {}
              /\ rw'.w = <<>>
              /\ \/ resetter = "reset" /\ resetter' = "pause"
                 \/ \E i \in Slots : /\ handler[i].pc = "write"
                                      /\ handler'[i].pc = "redirect"
          /\ \A i \in Slots :
               (\/ handler'[i].found # handler[i].found
                \/ handler'[i].cachedURL # handler[i].cachedURL)
                  => \/ /\ ReadStep(i)
                        /\ WritersIn = {}
                        /\ rw.readers > 0
                     \/ handler[i].pc = "done"]_vars

\* a handler is writing while the other handler is held at RLock and the
\* resetter waits for the writer mutex
C15_Witness ==
    \E i, j \in Slots :
        /\ handler[i].pc = "write"
        /\ rw.w = <<"handler", i>>
        /\ handler[j].pc = "rlock"
        /\ resetter = "lock"

\* C16: a request that observed a miss fetches, and with a trip selected
\* takes the lock and writes its own target, whatever the cache holds for
\* its host by then: after its write the cache holds its target.  Fetch
\* and selection are never held back by another request.
C16_NoSingleFlight ==
    /\ [](\A i \in Slots :
            /\ handler[i].pc = "fetch" => ENABLED H_Fetch(i)
            /\ handler[i].pc = "select" => ENABLED H_Select(i))
    /\ [][\A i \in Slots :
            handler'[i] # handler[i] =>
               /\ handler[i].pc = "fetch" => handler'[i].pc = "select"
               /\ (handler[i].pc = "select" /\ ~ FetchFailed(i))
                     => handler'[i].pc = "lock"
               /\ handler[i].pc = "lock" => handler'[i].pc = "lockwait"
               /\ handler[i].pc = "lockwait" => handler'[i].pc = "write"
               /\ handler[i].pc = "write"
                     => /\ handler'[i].pc = "redirect"
                        /\ cache'[handler[i].host] = handler[i].target
                        /\ lastPut'[handler[i].host] = handler[i].target]_vars

\* two requests for the same host both missed and both wrote, with
\* different targets; the cache holds the target of the second writer
C16_Witness ==
    \E i, j \in Slots :
        /\ i # j
        /\ handler[i].host = handler[j].host
        /\ ~ handler[i].found /\ ~ handler[j].found
        /\ handler[i].pc = "redirect" /\ handler[j].pc = "redirect"
        /\ handler[i].target # handler[j].target
        /\ handler[i].host \in DOMAIN cache
        /\ cache[handler[i].host] = handler[i].target
        /\ lastPut[handler[i].host] = handler[i].target

\* handler j has completed a cache write for its host
HasWritten(j) ==
    handler[j].pc \in {"redirect", "done"} /\ handler[j].target # ""

\* C17 as stated: a read of host h by a request, after another request
\* completed a write of h, returns a hit with a written target
C17_Original ==
    [][\A i, j \in Slots :
          (/\ i # j
           /\ ReadStep(i)
           /\ HasWritten(j)
           /\ handler[j].host = handler[i].host)
             => /\ handler'[i].found
                /\ handler'[i].cachedURL \in TripURLs]_vars

\* C17: a read of host h, after a write of h completed and with no reset
\* since that write, returns a hit with the target written last
C17_VisibleUntilReset ==
    [][\A i \in Slots :
          (ReadStep(i) /\ lastPut[handler[i].host] # "")
             => /\ handler'[i].found
                /\ handler'[i].cachedURL = lastPut[handler[i].host]
                /\ handler'[i].cachedURL \in TripURLs
                /\ handler'[i].pc = "hit"]_vars

\* the request that wrote b.io has been answered, and a later request for
\* b.io has read the target it wrote
C17_Witness ==
    \E i, j \in Slots :
        /\ i # j
        /\ handler[j].pc = "done" /\ handler[j].target # ""
        /\ handler[j].host = "b.io"
        /\ handler[i].host = "b.io"
        /\ handler[i].pc = "hit"
        /\ handler[i].cachedURL = handler[j].target
        /\ lastPut["b.io"] = handler[j].target

\* C19: a key leaves the cache only in the resetter's step, which holds the
\* write lock with no reader inside and leaves the map empty; a handler's
\* step never removes a key
C19_ResetOnlyEviction ==
    [][/\ (\E h \in DOMAIN cache : h \notin DOMAIN cache')
             => /\ resetter = "reset" /\ resetter' = "pause"
                /\ rw.w = <<"resetter">> /\ rw.readers = 0
                /\ ReadersIn = {}
                /\ handler' = handler
                /\ cache' = <<>>
       /\ handler' # handler => DOMAIN cache \subseteq DOMAIN cache'
       /\ (resetter = "reset" /\ resetter' # "reset") => cache' = <<>>]_vars

\* both hosts were cached and the reset has emptied the map
C19_Witness ==
    \E i, j \in Slots :
        /\ HasWritten(i) /\ handler[i].host = "a.io"
        /\ HasWritten(j) /\ handler[j].host = "b.io"
        /\ cache = <<>>
        /\ resetter = "pause"

----------------------------------------------------------------------------
(* The visit record, under Spec.                                           *)

\* C18: the end of a visit record, recorded or failed, changes no handler,
\* nor the cache, nor the lock; once the visit goroutine is started no step
\* of the handler touches it or waits for it; so status, target and cache
\* are what they are without it
C18_VisitIsolated ==
    /\ [](\A i \in Slots :
            /\ handler[i].pc \in
                  {"read", "hit", "fetch", "select", "write", "redirect"}
                  => ENABLED Runs(i)
            /\ (handler[i].pc \in {"rlock", "lock"} /\ rw.w = <<>>)
                  => ENABLED Acquires(i)
            /\ (handler[i].pc = "lockwait" /\ rw.readers = 0)
                  => ENABLED Runs(i))
    /\ [][\A i \in Slots :
            /\ (visit[i] = "pending" /\ visit'[i] # "pending")
                  => /\ visit'[i] \in {"recorded", "failed"}
                     /\ handler' = handler
                     /\ cache' = cache
                     /\ rw' = rw
            /\ (handler'[i] # handler[i]
                 /\ handler[i].pc \notin {"idle", "done", "geo"})
                  => visit' = visit]_vars

\* one request was answered with its trip page though its visit could not
\* be recorded, the other before its visit record had run
C18_Witness ==
    \E i, j \in Slots :
        /\ i # j
        /\ Redirected(i) /\ handler[i].location \in TripURLs
        /\ visit[i] = "failed"
        /\ Redirected(j) /\ handler[j].location \in TripURLs
        /\ visit[j] = "pending"

----------------------------------------------------------------------------
(* The reset schedule, under SpecReset.                                    *)

\* the resetter starts a sleep that a reset will follow
ArmsReset == resetter # "sleep" /\ resetter' = "sleep"

\* C20 as stated: the first sleep ends at the next midnight, and after the
\* first reset each sleep before a following reset lasts a fixed 24 h
C20_Original ==
    /\ []((nResets = 0 /\ resetter = "sleep") => (wakeAt = Day))
    /\ [][(ArmsReset /\ nResets >= 1) => (sleepFor' = Day)]_vars

\* C20: every sleep before a reset, the first and the following ones, is
\* computed to end at the midnight following the instant it starts; after
\* a reset the resetter sleeps 60 s and then computes that duration anew,
\* which is then shorter than 24 h; no reset comes before its midnight
C20_RecomputedEachCycle ==
    /\ []((resetter = "sleep") =>
            (/\ wakeAt % Day = 0
             /\ sleepFor > 0 /\ sleepFor <= Day
             /\ wakeAt = ((wakeAt - sleepFor) \div Day) * Day + Day))
    /\ []((resetter = "pause") => (sleepFor = Pause))
    /\ []((nResets >= 1) => (clock >= nResets * Day))
    /\ [][/\ (resetter = "sleep" /\ resetter' # "sleep") => (clock >= wakeAt)
          /\ (nResets' # nResets) =>
               (/\ nResets' = nResets + 1
                /\ resetter' = "pause"
                /\ wakeAt' = clock + Pause)
          /\ (ArmsReset /\ nResets >= 1) =>
               (/\ clock >= wakeAt
                /\ sleepFor' = wakeAt' - clock
                /\ sleepFor' < Day
                /\ sleepFor' + Pause <= Day)]_vars

\* two resets done, the third armed for the third midnight by a sleep
\* shorter than a day
C20_Witness ==
    /\ nResets = 2
    /\ resetter = "sleep"
    /\ wakeAt = 3 * Day
    /\ sleepFor = Day - Pause

----------------------------------------------------------------------------
(* Where a request can be held up, under Spec.                             *)

\* handler i is inside a call that leaves the process: http.Get of
\* getGeoLocation (main.go:133, 201) or of fetchUserTrips (main.go:166, 283)
AwaitsCall(i) == handler[i].pc \in {"geo", "fetch"}

\* handler i is inside cache.RLock or cache.Lock and cannot return from it
AwaitsLock(i) ==
    \/ handler[i].pc \in {"rlock", "lock"} /\ rw.w # NoOne
    \/ handler[i].pc = "lockwait" /\ rw.readers > 0

\* C21 as stated: a request for a configured host is held up only in the
\* upstream trip fetch and in the acquisition of the lock for its write
C21_BlockingPoints ==
    \A i \in Slots :
        (AwaitsCall(i) \/ AwaitsLock(i))
            => handler[i].pc \in {"fetch", "lock", "lockwait"}

----------------------------------------------------------------------------
(* fetchUserTrips on its own: one call on one upstream answer              *)

\* longest list of an answer given to the single call
FetchLen == 2

FetchBodies ==
    LET ls == ListsOver({Elem(T1), Elem(T2), BadElem, PartElem}, FetchLen)
    IN  {[alltrips |-> a, trips |-> t, data |-> d] :
            a \in ls, t \in ls, d \in {l \in ls : Len(l) <= 1}}

FetchInputs ==
    Responses
    \cup {[kind |-> "http", status |-> 200, json |-> TRUE, body |-> b] :
            b \in FetchBodies}

FetInit ==
    /\ fetResp \in FetchInputs
    /\ fetPc = "call"
    /\ fetResult = NotFetched
    /\ SrvInit
    /\ selTrips = <<>> /\ selNow = 0 /\ selPc = "unused" /\ selResult = Nil
    /\ ClkUnused
    /\ HisInit

FetchUserTrips ==
    /\ fetPc = "call"
    /\ fetResult' = fetchUserTrips(fetResp)
    /\ fetPc' = "return"
    /\ UNCHANGED fetResp
    /\ UNCHANGED <<selVars, srvVars, clkVars, hisVars>>

FetNext == FetchUserTrips

SpecFetch == FetInit /\ [][FetNext]_vars

\* the list fetchUserTrips takes the trips from (main.go:312-318)
Located(body) ==
    IF Len(body.alltrips) > 0 THEN body.alltrips
    ELSE IF Len(body.trips) > 0 THEN body.trips
    ELSE body.data

\* an element that can be given the required shape
WellFormed(e) == e.typed /\ e.complete

\* the call has returned for an answer with status 200 and a JSON object
\* whose located list has an element that cannot be given the shape
FetchedWithBadElement ==
    /\ fetPc = "return"
    /\ fetResp.kind = "http" /\ fetResp.status = 200 /\ fetResp.json
    /\ \E k \in 1 .. Len(Located(fetResp.body)) :
          ~ WellFormed(Located(fetResp.body)[k])

\* C22 as stated: when the located list has an element that cannot be
\* coerced, fetchUserTrips returns no error and the well-formed elements
\* of that list in their received order, dropping only the others
C22_DropsOnlyBadElements ==
    FetchedWithBadElement =>
        /\ fetResult.err = ""
        /\ fetResult.trips
             = Decoded(SelectSeq(Located(fetResp.body), WellFormed))

----------------------------------------------------------------------------
(* selectTrip is total, under SpecSelect.                                  *)

\* the handler's locals when fetchUserTrips has returned trips without error
Fetched(trips) ==
    [Idle EXCEPT !.pc = "select", !.host = "a.io", !.username = "alice",
                 !.fetched = [err |-> "", trips |-> trips]]

\* C23: every record is ongoing, future or past at every now; selectTrip
\* returns nil only for the empty sequence and otherwise an element of its
\* input; a handler whose fetched list is not empty never takes the
\* "no suitable trip" fallback but goes on to the cache write
C23_Total ==
    Returned =>
        /\ \A k \in Idx :
               \/ IsOngoing(selTrips[k], selNow)
               \/ IsFuture(selTrips[k], selNow)
               \/ IsPast(selTrips[k], selNow)
        /\ selResult = Nil <=> selTrips = <<>>
        /\ selResult # Nil => \E k \in Idx : selResult[1] = selTrips[k]
        /\ selTrips # <<>> =>
               /\ afterFetch(Fetched(selTrips), selNow).pc = "lock"
               /\ afterFetch(Fetched(selTrips), selNow).selected = selResult

\* selectTrip has returned for two or more trips that are all over
C23_Witness ==
    /\ Returned
    /\ Len(selTrips) >= 2
    /\ \A k \in Idx : IsPast(selTrips[k], selNow)
                        /\ ~ IsOngoing(selTrips[k], selNow)
    /\ selResult # Nil
    /\ afterFetch(Fetched(selTrips), selNow).pc = "lock"

----------------------------------------------------------------------------
(* What the cache holds, under Spec.                                       *)

\* C24: every cache key is a key of the domain table, the value under
\* host h is the URL https://polarsteps.com/<p>/<id>-<slug> of a trip of
\* the profile p the table maps h to, and the cache never has more
\* entries than there are configured domains
C24_CacheShape ==
    /\ \A h \in DOMAIN cache :
          /\ h \in DOMAIN Domains
          /\ \E t \in {T1, T2} : cache[h] = TripPage(Domains[h], t)
    /\ Cardinality(DOMAIN cache) <= Cardinality(DOMAIN Domains)

\* every configured domain is cached, each with a trip of its own profile
C24_Witness ==
    /\ DOMAIN cache = DOMAIN Domains
    /\ cache["a.io"] = TripPage("alice", T1)
    /\ cache["b.io"] = TripPage("bob", T2)

----------------------------------------------------------------------------
(* The lock is held for one map operation only, under Spec.                *)

\* handler i is at a step that may take long: the geolocation lookup, the
\* upstream fetch, the selection, or writing the response
LongStep(i) ==
    handler[i].pc \in {"geo", "fetch", "select", "hit", "redirect"}

\* C25: no handler holds the read or the write lock during a long step
\* and the resetter holds none while it sleeps; whoever holds or has
\* claimed the lock can take its next step at once, and a free lock can
\* be taken by whoever asks for it, so no set of goroutines is stuck
C25_NoLockAcrossBlocking ==
    /\ rw.readers = Cardinality(ReadersIn)
    /\ \A i \in Slots :
          /\ rw.w = H(i) <=> handler[i].pc \in {"lockwait", "write"}
          /\ LongStep(i) => (rw.w # H(i) /\ i \notin ReadersIn)
          /\ handler[i].pc = "read" => ENABLED H_Read(i)
          /\ handler[i].pc = "write" => ENABLED H_Write(i)
          /\ (handler[i].pc = "lockwait" /\ rw.readers = 0)
                => ENABLED H_Locked(i)
          /\ (handler[i].pc = "rlock" /\ rw.w = NoOne) => ENABLED H_RLock(i)
          /\ (handler[i].pc = "lock" /\ rw.w = NoOne) => ENABLED H_Lock(i)
    /\ rw.w = R <=> resetter \in {"lockwait", "reset"}
    /\ resetter \in {"sleep", "pause"} => rw.w # R
    /\ resetter = "reset" => ENABLED R_Reset
    /\ (resetter = "lockwait" /\ rw.readers = 0) => ENABLED R_Locked
    /\ (resetter = "lock" /\ rw.w = NoOne) => ENABLED R_Lock
    /\ (rw.w # NoOne \/ rw.readers > 0)
          => \/ \E i \in Slots : ENABLED (H_Read(i) \/ H_Locked(i) \/ H_Write(i))
             \/ ENABLED (R_Locked \/ R_Reset)

\* one handler is in its upstream fetch while another one is in its
\* write and the resetter waits for the lock
C25_Witness ==
    \E i, j \in Slots :
        /\ handler[i].pc = "fetch"
        /\ handler[j].pc = "write"
        /\ rw.w = H(j)
        /\ rw.readers = 0
        /\ resetter = "lock"

----------------------------------------------------------------------------
(* Upstream fetches after a write, under Spec.                             *)

\* the requests for host h that have observed a miss and have their
\* upstream fetch still to do
Missers(h) ==
    {i \in Slots : handler[i].host = h /\ handler[i].pc = "fetch"}

\* handler i does its upstream fetch
FetchStep(i) == handler[i].pc = "fetch" /\ handler'[i].pc # "fetch"

\* C26 as stated: once a write for host h has completed and until the
\* next reset, no request for h does an upstream fetch
C26_Original ==
    [][\A i \in Slots :
          FetchStep(i) => lastPut[handler[i].host] = ""]_vars

\* C26: once a write for host h has completed and until the next reset,
\* no request that reads the cache for h goes on to an upstream fetch;
\* the requests for h that can still fetch are those that observed their
\* miss before, and their set only shrinks
C26_NoNewMissAfterWrite ==
    [][/\ \A i \in Slots :
            (ReadStep(i) /\ lastPut[handler[i].host] # "")
               => /\ handler'[i].pc # "fetch"
                  /\ i \notin Missers(handler[i].host)'
       /\ \A h \in NormHosts :
            (lastPut[h] # "" /\ lastPut'[h] # "")
               => Missers(h)' \subseteq Missers(h)
       /\ \A i \in Slots :
            (FetchStep(i) /\ lastPut[handler[i].host] # "")
               => /\ ~ handler[i].found
                  /\ i \in Missers(handler[i].host)
                  /\ i \notin Missers(handler[i].host)']_vars

\* after a write for a.io one request for a.io has been answered from the
\* cache while another, whose miss is older than the write, has its fetch
\* still to do
C26_Witness ==
    \E i, j \in Slots :
        /\ i # j
        /\ lastPut["a.io"] # ""
        /\ handler[i].host = "a.io" /\ handler[i].pc = "fetch"
        /\ handler[j].host = "a.io" /\ handler[j].pc = "hit"
        /\ handler[j].cachedURL = lastPut["a.io"]

----------------------------------------------------------------------------
(* Requests that straddle a reset.  SpecBoundary is Spec for the host a.io *)
(* with two history variables that follow whose miss is older than the     *)
(* last reset and which entries such a request has written.                *)

ResetStep == resetter = "reset" /\ resetter' = "pause"

WriteStep(i) == handler[i].pc = "write" /\ handler'[i].pc = "redirect"

\* the handlers that have read a miss (main.go:154-158) and have not yet
\* stored their target (main.go:188-190)
InFlight ==
    {i \in Slots :
        handler[i].pc \in {"fetch", "select", "lock", "lockwait", "write"}}

Observe ==
    /\ missedOld' =
          IF ResetStep THEN InFlight
          ELSE missedOld \ {i \in Slots : handler'[i].pc = "done"}
    /\ putOld' =
          IF ResetStep THEN {}
          ELSE IF \E i \in Slots : WriteStep(i)
               THEN LET i == CHOOSE k \in Slots : WriteStep(k)
                    IN  IF i \in missedOld
                        THEN putOld \cup {handler[i].host}
                        ELSE putOld \ {handler[i].host}
               ELSE putOld

BoundaryNext ==
    Next /\ LiveScope' /\ Observe /\ UNCHANGED <<selVars, clkVars, fetVars>>

SpecBoundary == Init /\ [][BoundaryNext]_vars

\* C27 as stated: after a reset every entry of the cache was written by a
\* request that observed its miss after that reset; no request that read
\* its miss before the reset stores its result after it
C27_FreshAfterReset ==
    /\ \A h \in DOMAIN cache : h \notin putOld
    /\ \A i \in missedOld : handler[i].pc # "write"

====
